---- MODULE Spec2Model ----
(***************************************************************************)
(* Model of trading_system.py (NSE500 swing trading scan): the indicator   *)
(* pipeline, the entry rule check_buy, the exit rule check_sell, the       *)
(* portfolio ledger kept in portfolio.json and the cycle run_scan.         *)
(*                                                                         *)
(* Numbers.  Prices are integers in paise (0.01 rupee), volumes are        *)
(* integers.  Every derived float (a diff, a rolling mean, an RSI) is an   *)
(* exact rational [num, den] with den > 0, or one of the three IEEE        *)
(* specials: NaN = 0/0, +inf = 1/0, -inf = -1/0.  Exact rationals stand    *)
(* for the doubles of the program: rounding error of the double            *)
(* arithmetic is not modelled (signed zero is not modelled either; it      *)
(* does not change any result of rsi).                                     *)
(***************************************************************************)
EXTENDS Integers, Sequences, FiniteSets, TLC

----------------------------------------------------------------------------
(* Float values as rationals with NaN and infinities *)

Abs(a) == IF a < 0 THEN -a ELSE a

RECURSIVE GCD(_, _)
GCD(a, b) == IF b = 0 THEN a ELSE GCD(b, a % b)

Sign(a) == IF a > 0 THEN 1 ELSE IF a < 0 THEN -1 ELSE 0

NaN == [num |-> 0, den |-> 0]
PosInf == [num |-> 1, den |-> 0]
NegInf == [num |-> -1, den |-> 0]

\* the rational a/b in lowest terms (b # 0)
Rat(a, b) ==
    LET g == GCD(Abs(a), Abs(b))
    IN  [num |-> Sign(b) * (a \div g), den |-> Abs(b) \div g]

Num(a) == [num |-> a, den |-> 1]

IsNaN(x) == x.den = 0 /\ x.num = 0
IsFinite(x) == x.den > 0

\* x < y on floats: FALSE as soon as one side is NaN
Lt(x, y) ==
    IF IsNaN(x) \/ IsNaN(y) THEN FALSE
    ELSE IF x.den = 0 /\ y.den = 0 THEN x.num < y.num
    ELSE IF x.den = 0 THEN x.num < 0
    ELSE IF y.den = 0 THEN y.num > 0
    ELSE x.num * y.den < y.num * x.den

Gt(x, y) == Lt(y, x)

\* x <= y on floats: FALSE as soon as one side is NaN
Le(x, y) ==
    IF IsNaN(x) \/ IsNaN(y) THEN FALSE
    ELSE IF x.den = 0 /\ y.den = 0 THEN x.num <= y.num
    ELSE IF x.den = 0 THEN x.num < 0
    ELSE IF y.den = 0 THEN y.num > 0
    ELSE x.num * y.den <= y.num * x.den

Ge(x, y) == Le(y, x)

Neg(x) == [num |-> -x.num, den |-> x.den]

FAdd(x, y) ==
    IF IsNaN(x) \/ IsNaN(y) THEN NaN
    ELSE IF x.den = 0 /\ y.den = 0 THEN (IF x.num = y.num THEN x ELSE NaN)
    ELSE IF x.den = 0 THEN x
    ELSE IF y.den = 0 THEN y
    ELSE Rat(x.num * y.den + y.num * x.den, x.den * y.den)

FSub(x, y) == FAdd(x, Neg(y))

FMul(x, y) ==
    IF IsNaN(x) \/ IsNaN(y) THEN NaN
    ELSE IF x.den = 0 \/ y.den = 0
         THEN (IF x.num = 0 \/ y.num = 0 THEN NaN
               ELSE [num |-> Sign(x.num) * Sign(y.num), den |-> 0])
    ELSE Rat(x.num * y.num, x.den * y.den)

\* numpy float division: x/0 is +-inf, 0/0 is NaN, no exception
FDiv(x, y) ==
    IF IsNaN(x) \/ IsNaN(y) THEN NaN
    ELSE IF y.den = 0 THEN (IF x.den = 0 THEN NaN ELSE Num(0))
    ELSE IF y.num = 0
         THEN (IF x.num = 0 THEN NaN ELSE [num |-> Sign(x.num), den |-> 0])
    ELSE IF x.den = 0 THEN [num |-> Sign(x.num) * Sign(y.num), den |-> 0]
    ELSE Rat(x.num * y.den, x.den * y.num)

----------------------------------------------------------------------------
(* DataFrames.  A DataFrame is a record of five columns of equal length,   *)
(* Open, High, Low, Close, Volume, each a sequence of integers; the empty  *)
(* DataFrame has empty columns.  A derived column is a function from the   *)
(* row numbers 1..n to float values.                                       *)

EmptyDf == [Open |-> <<>>, High |-> <<>>, Low |-> <<>>, Close |-> <<>>,
            Volume |-> <<>>]

\* frame.shape[0]
NRows(frame) == Len(frame.Close)

\* frame.empty
IsEmpty(frame) == NRows(frame) = 0

\* a raw integer column as a float column
ToF(s) == [k \in DOMAIN s |-> Num(s[k])]

\* Series.diff(): NaN in the first row
diff(col) == [k \in DOMAIN col |-> IF k = 1 THEN NaN ELSE FSub(col[k], col[k - 1])]

\* Series.clip(lower=0) and Series.clip(upper=0): NaN stays NaN
clip_lower0(col) == [k \in DOMAIN col |-> IF Lt(col[k], Num(0)) THEN Num(0) ELSE col[k]]
clip_upper0(col) == [k \in DOMAIN col |-> IF Gt(col[k], Num(0)) THEN Num(0) ELSE col[k]]

\* sum of col[a..b] (a <= b), halving the window; NaN as soon as one row
\* of the window is NaN
RECURSIVE WinSum(_, _, _)
WinSum(col, a, b) ==
    IF a = b THEN col[a]
    ELSE LET m == (a + b) \div 2
         IN  FAdd(WinSum(col, a, m), WinSum(col, m + 1, b))

FMax(x, y) == IF IsNaN(x) \/ IsNaN(y) THEN NaN ELSE IF Gt(y, x) THEN y ELSE x
FMin(x, y) == IF IsNaN(x) \/ IsNaN(y) THEN NaN ELSE IF Lt(y, x) THEN y ELSE x

RECURSIVE WinMax(_, _, _)
WinMax(col, a, b) ==
    IF a = b THEN col[a]
    ELSE LET m == (a + b) \div 2
         IN  FMax(WinMax(col, a, m), WinMax(col, m + 1, b))

RECURSIVE WinMin(_, _, _)
WinMin(col, a, b) ==
    IF a = b THEN col[a]
    ELSE LET m == (a + b) \div 2
         IN  FMin(WinMin(col, a, m), WinMin(col, m + 1, b))

\* Series.rolling(w).mean(): min_periods = w, so a row is NaN until w
\* non-NaN rows are in its window
rolling_mean(col, w) ==
    [k \in DOMAIN col |-> IF k < w THEN NaN ELSE FDiv(WinSum(col, k - w + 1, k), Num(w))]

rolling_max(col, w) ==
    [k \in DOMAIN col |-> IF k < w THEN NaN ELSE WinMax(col, k - w + 1, k)]

rolling_min(col, w) ==
    [k \in DOMAIN col |-> IF k < w THEN NaN ELSE WinMin(col, k - w + 1, k)]

\* rsi that takes a zero average loss for a missing value
rsi_nan_on_zero_loss(series, period) ==
    LET delta == diff(series)
        gain == rolling_mean(clip_lower0(delta), period)
        lossm == rolling_mean(clip_upper0(delta), period)
        loss == [k \in DOMAIN series |->
                    IF lossm[k] = Num(0) THEN NaN ELSE Neg(lossm[k])]
        rs == [k \in DOMAIN series |-> FDiv(gain[k], loss[k])]
    IN  [k \in DOMAIN series |->
            FSub(Num(100), FDiv(Num(100), FAdd(Num(1), rs[k])))]

rsi(series, period) ==
    LET delta == diff(series)
        gain == rolling_mean(clip_lower0(delta), period)
        lossm == rolling_mean(clip_upper0(delta), period)
        loss == [k \in DOMAIN series |-> Neg(lossm[k])]
        rs == [k \in DOMAIN series |-> FDiv(gain[k], loss[k])]
    IN  [k \in DOMAIN series |->
            FSub(Num(100), FDiv(Num(100), FAdd(Num(1), rs[k])))]

\* the added columns of compute_indicators(frame); the five raw columns stay
compute_indicators(frame) ==
    [Open |-> frame.Open, High |-> frame.High, Low |-> frame.Low, Close |-> frame.Close,
     Volume |-> frame.Volume,
     RSI7 |-> rsi(ToF(frame.Close), 7),
     RSI14 |-> rsi(ToF(frame.Close), 14),
     RSI30 |-> rsi(ToF(frame.Close), 30),
     MA50 |-> rolling_mean(ToF(frame.Close), 50),
     MA200 |-> rolling_mean(ToF(frame.Close), 200),
     Vol20 |-> rolling_mean(ToF(frame.Volume), 20),
     SwingHigh30 |-> rolling_max(ToF(frame.High), 30),
     SwingLow20 |-> rolling_min(ToF(frame.Low), 20)]

----------------------------------------------------------------------------
(* The bar source.  fetch_ohlcv returns a DataFrame or the empty one.  A   *)
(* series is named by a descriptor, which is what the state keeps:         *)
(*   segs  the Close column, run-length encoded: <<count, close>> pairs    *)
(*   open  the Open of the last bar (every earlier bar opens at its close) *)
(*   vol   the Volume of the last bar, bvol the Volume of the earlier bars *)
(* High and Low of a bar are the larger and the smaller of Open and Close. *)

RECURSIVE Expand(_)
Expand(segs) ==
    IF segs = << >> THEN << >>
    ELSE [k \in 1..Head(segs)[1] |-> Head(segs)[2]] \o Expand(Tail(segs))

Max2(a, b) == IF a > b THEN a ELSE b
Min2(a, b) == IF a < b THEN a ELSE b

Frame(d) ==
    LET close == Expand(d.segs)
        n == Len(close)
        open == [k \in 1..n |-> IF k = n THEN d.open ELSE close[k]]
    IN  [Open |-> open,
         High |-> [k \in 1..n |-> Max2(open[k], close[k])],
         Low |-> [k \in 1..n |-> Min2(open[k], close[k])],
         Close |-> close,
         Volume |-> [k \in 1..n |-> IF k = n THEN d.vol ELSE d.bvol]]

Desc(segs, open, vol, bvol) == [segs |-> segs, open |-> open, vol |-> vol, bvol |-> bvol]

\* fetch_ohlcv found nothing (download failed twice, or no complete row)
NoData == Desc(<< >>, 0, 0, 0)

\* n bars: a base at lo, 50 bars at hi, one bar at dip, the last bar at close
Dip(n, lo, hi, dip, close, open, vol, bvol) ==
    Desc(<< <<n - 52, lo>>, <<50, hi>>, <<1, dip>>, <<1, close>> >>, open, vol, bvol)

\* n bars rising by one paise a bar up to close
RECURSIVE RiseSegs(_, _)
RiseSegs(n, close) ==
    IF n = 0 THEN << >> ELSE Append(RiseSegs(n - 1, close - 1), <<1, close>>)

Rise(n, close) == Desc(RiseSegs(n, close), close - 1, 10, 10)

\* n bars all at close
Flat(n, close) == Desc(<< <<n, close>> >>, close, 10, 10)

----------------------------------------------------------------------------
(* The portfolio *)

\* Round2 that cuts the digits after the second decimal instead of rounding
Round2_trunc(n, d, down) == n \div d

\* round(x, 2) of the double x = n/d paise: to the nearest paise; on a tie
\* the double product decides, which is upward unless down holds
Round2(n, d, down) ==
    LET q == n \div d
        r == n % d
    IN  IF 2 * r < d THEN q
        ELSE IF 2 * r > d THEN q + 1
        ELSE IF down THEN q ELSE q + 1

\* the prices up to 4.00 whose double product price * 1.10 lies below the
\* tie (price * 0.93 has no such price up to 4.00)
TargetTieDown == {95, 115, 145, 165, 205, 305, 375}

\* new_position that keeps the whole rupees of the price as buy_price
new_position_whole(symbol, price, now) ==
    [symbol |-> symbol,
     buy_price |-> (price \div 100) * 100,
     buy_date |-> now,
     stop_loss |-> Round2(price * 93, 100, FALSE),
     target_price |-> Round2(price * 110, 100, price \in TargetTieDown),
     status |-> "OPEN"]

\* the position dict of add_position; prices in paise
new_position(symbol, price, now) ==
    [symbol |-> symbol,
     buy_price |-> price,
     buy_date |-> now,
     stop_loss |-> Round2(price * 93, 100, FALSE),
     target_price |-> Round2(price * 110, 100, price \in TargetTieDown),
     status |-> "OPEN"]

\* closed_position that attaches the exit fields and forgets the status
closed_position_open(pos, price, reason) ==
    [sell_price |-> price, sell_reason |-> reason] @@ pos

\* closed_position that records the placeholder price 0.0
closed_position_placeholder(pos, price, reason) ==
    [sell_price |-> 0, sell_reason |-> reason]
        @@ [pos EXCEPT !.status = "CLOSED"]

\* pos["status"] = "CLOSED"; pos["sell_price"] = price; pos["sell_reason"] = reason
closed_position(pos, price, reason) ==
    [sell_price |-> price, sell_reason |-> reason]
        @@ [pos EXCEPT !.status = "CLOSED"]

----------------------------------------------------------------------------
(* The universe source: data/NSE500.csv *)

\* the CSV file: absent, without a Symbol column, or its Symbol column
CsvAbsent == [exists |-> FALSE, has_symbol |-> FALSE, rows |-> << >>]
CsvNoColumn == [exists |-> TRUE, has_symbol |-> FALSE, rows |-> << >>]
Csv(rows) == [exists |-> TRUE, has_symbol |-> TRUE, rows |-> rows]

\* Series.unique(): first occurrences, in order
RECURSIVE unique(_)
unique(rows) ==
    IF rows = << >> THEN << >>
    ELSE LET front == unique(SubSeq(rows, 1, Len(rows) - 1))
             last == rows[Len(rows)]
         IN  IF \E k \in DOMAIN front : front[k] = last THEN front
             ELSE Append(front, last)

\* f"{s}.NS"
NS(sym) == sym \o ".NS"

\* fetch_nse500_symbols that takes a missing file for an empty universe
fetch_nse500_symbols_swallow(csv) ==
    IF ~csv.exists THEN [error |-> "none", symbols |-> << >>]
    ELSE IF ~csv.has_symbol THEN [error |-> "ValueError", symbols |-> << >>]
    ELSE LET u == unique(csv.rows)
         IN  [error |-> "none", symbols |-> [k \in DOMAIN u |-> NS(u[k])]]

fetch_nse500_symbols(csv) ==
    IF ~csv.exists THEN [error |-> "FileNotFoundError", symbols |-> << >>]
    ELSE IF ~csv.has_symbol THEN [error |-> "ValueError", symbols |-> << >>]
    ELSE LET u == unique(csv.rows)
         IN  [error |-> "none", symbols |-> [k \in DOMAIN u |-> NS(u[k])]]

----------------------------------------------------------------------------
(* Bounds and input sets *)

\* cycles run_scan is started
MaxCycles == 3
\* records add_position may have appended when a cycle starts
MaxLedger == 2

CsvSet == {CsvAbsent, CsvNoColumn, Csv(<< >>), Csv(<<"A">>), Csv(<<"A", "B", "A">>)}

\* what the bar source answers in a cycle
DfBuy100 == Dip(200, 100, 130, 90, 100, 95, 30, 10)
DfBuy2 == Dip(200, 5, 10, 1, 2, 1, 30, 10)
DfShort == Dip(199, 100, 130, 90, 100, 95, 30, 10)

DfSet == {NoData, DfBuy100, DfBuy2, DfShort,
          Flat(1, 93), Flat(1, 110), Rise(15, 100), Flat(30, 100)}

\* n bars in seven levels: a base at lo, then 18 bars at hi, 11 at h2, 10 at
\* a, 7 at b, 3 at c and the last bar at close.  Counted back from the last
\* bar, the steps lie 49, 31, 20, 10, 3 and 0 bars back: lo -> hi is in no
\* RSI window and not in MA50, hi -> h2 in no RSI window, h2 -> a in RSI30's
\* only, a -> b in RSI14's and RSI30's, b -> c and c -> close in all three.
Steps(n, lo, hi, h2, a, b, c, close, open, vol, bvol) ==
    Desc(<< <<n - 50, lo>>, <<18, hi>>, <<11, h2>>, <<10, a>>, <<7, b>>,
            <<3, c>>, <<1, close>> >>, open, vol, bvol)

\* the series the entry rule is tried on: around a series that satisfies
\* the four rules, one rule at a time is moved to its threshold and past it
DfBuyRsi14 ==
    {Steps(n, 60, b, b, b, b, 91, 100, 95, 20, 7) :
        n \in {51, 199, 200, 201, 260}, b \in {111, 112, 113}}
DfBuyRsi7 ==
    {Steps(n, 60, 111, 111, 111, b, 93, 100, 95, 20, 7) :
        n \in {200, 260}, b \in {105, 106, 107}}
DfBuyRsi30 ==
    {Steps(n, 60, h, h, 115, 115, 91, 100, 95, 20, 7) :
        n \in {200, 260}, h \in {107, 108, 109}}
DfBuyTrend ==
    {Steps(n, lo, hi, 113, 113, 113, 91, 100, 95, 20, 7) :
        n \in {200, 260}, lo \in {60, 95, 100, 200}, hi \in {60, 113}}
DfBuyVolume ==
    {Steps(200, 60, 113, 113, 113, 113, 91, 100, 95, v[1], v[2]) :
        v \in {<<18, 7>>, <<19, 7>>, <<20, 7>>, <<0, 0>>, <<5, 0>>}}
DfBuyCandle ==
    {Steps(200, 60, 113, 113, 113, 113, c, 100, o, 20, 7) :
        c \in {91, 99, 100, 101}, o \in {95, 99, 100, 101}}
DfBuyOther ==
    {NoData, DfBuy100, DfBuy2, DfShort, Flat(1, 100), Flat(199, 100),
     Flat(200, 100), Flat(260, 100), Rise(15, 100),
     Steps(200, 60, 70, 80, 90, 95, 98, 100, 95, 20, 7)}

DfBuySet ==
    DfBuyRsi14 \cup DfBuyRsi7 \cup DfBuyRsi30 \cup DfBuyTrend \cup DfBuyVolume
        \cup DfBuyCandle \cup DfBuyOther

\* n bars at close, the bar before the last one paise lower: RSI is 50
Zig(n, close) == Desc(<< <<n - 2, close>>, <<1, close - 1>>, <<1, close>> >>, close, 10, 10)

\* n bars one paise under close, then a bar two under, the last at close
ZigUp(n, close) ==
    Desc(<< <<n - 2, close - 1>>, <<1, close - 2>>, <<1, close>> >>, close - 2, 10, 10)

\* n bars five paise over close, the last at close
Fall(n, close) == Desc(<< <<n - 1, close + 5>>, <<1, close>> >>, close + 5, 10, 10)

\* the series the exit rule is tried on
DfSellLens == {3, 14, 15, 16, 29, 30, 31, 200}
DfSellCloses == {93, 94, 100, 109, 110, 111}

DfSellSet ==
    {NoData, Flat(1, 2), Flat(30, 2), Flat(1, 1), Flat(1, 3)}
    \cup {Flat(1, c) : c \in DfSellCloses}
    \cup {Flat(n, c) : n \in DfSellLens, c \in DfSellCloses}
    \cup {Zig(n, c) : n \in DfSellLens, c \in DfSellCloses}
    \cup {ZigUp(n, c) : n \in DfSellLens, c \in DfSellCloses}
    \cup {Fall(n, c) : n \in DfSellLens, c \in DfSellCloses}
    \cup {Rise(n, c) : n \in DfSellLens \ {200}, c \in DfSellCloses}

\* the series that open the positions the exit rule is tried on
DfBuy101 == Dip(200, 101, 131, 91, 101, 95, 30, 10)
DfSellBuys == {DfBuy100, DfBuy101, DfBuy2}

\* every series of the model
AllDf == DfSet \cup DfBuySet \cup DfSellSet \cup DfSellBuys

----------------------------------------------------------------------------
(* The rules.  They read a DataFrame through its length and its last two  *)
(* rows.  That view is computed once for every series the bar source can   *)
(* answer, from the columns of compute_indicators, and looked up by        *)
(* descriptor.                                                             *)

\* frame.iloc[k - 1] of a raw DataFrame
iloc(frame, k) ==
    [Open |-> frame.Open[k], High |-> frame.High[k], Low |-> frame.Low[k],
     Close |-> frame.Close[k], Volume |-> frame.Volume[k]]

\* ind.iloc[k - 1] of a DataFrame with the columns of compute_indicators
iloc_ind(ind, k) ==
    [Open |-> ind.Open[k], High |-> ind.High[k], Low |-> ind.Low[k],
     Close |-> ind.Close[k], Volume |-> ind.Volume[k],
     RSI7 |-> ind.RSI7[k], RSI14 |-> ind.RSI14[k], RSI30 |-> ind.RSI30[k],
     MA50 |-> ind.MA50[k], MA200 |-> ind.MA200[k], Vol20 |-> ind.Vol20[k],
     SwingHigh30 |-> ind.SwingHigh30[k], SwingLow20 |-> ind.SwingLow20[k]]

\* what the rules read of a DataFrame: n = shape[0], last = iloc[-1] of
\* compute_indicators(frame), prev = iloc[-2]
View(frame) ==
    IF IsEmpty(frame) THEN [n |-> 0]
    ELSE [n |-> NRows(frame),
          last |-> iloc_ind(compute_indicators(frame), NRows(frame)),
          prev |-> IF NRows(frame) = 1 THEN [Close |-> 0]
                   ELSE iloc(frame, NRows(frame) - 1)]

Rows(d) == View(Frame(d))

\* the view of every series, tabulated (the @@ makes the table a value
\* computed once instead of a rule applied at each use)
RowsOf == [d \in AllDf |-> Rows(d)] @@ << >>

\* the DataFrame fetch_ohlcv returns when the bar source answers the series d
fetch_ohlcv(d) == RowsOf[d]

\* frame.shape[0] and frame.empty
Shape(frame) == frame.n
Empty(frame) == frame.n = 0

bullish_confirmation(frame) ==
    /\ frame.last.Close > frame.last.Open
    /\ frame.last.Close > frame.prev.Close

NoInfo == << >>

\* check_buy without the test of the length
check_buy_any_length(frame) ==
    LET last == frame.last
        cond_rsi == /\ Lt(last.RSI14, Num(30))
                    /\ Lt(last.RSI7, Num(35))
                    /\ Lt(last.RSI30, Num(40))
        cond_trend == \/ Gt(Num(last.Close), last.MA200)
                      \/ Gt(last.MA50, last.MA200)
        cond_volume == Gt(Num(last.Volume), FMul(Rat(5, 2), last.Vol20))
        cond_candle == bullish_confirmation(frame)
    IN  [buy |-> cond_rsi /\ cond_trend /\ cond_volume /\ cond_candle,
         info |-> [price |-> last.Close,
                   RSI14 |-> last.RSI14,
                   VolumeMultiple |-> FDiv(Num(last.Volume), last.Vol20)]]

\* check_buy whose RSI14 rule admits the threshold
check_buy_rsi14_le(frame) ==
    IF Shape(frame) < 200 THEN [buy |-> FALSE, info |-> NoInfo]
    ELSE
    LET last == frame.last
        cond_rsi == /\ Le(last.RSI14, Num(30))
                    /\ Lt(last.RSI7, Num(35))
                    /\ Lt(last.RSI30, Num(40))
        cond_trend == \/ Gt(Num(last.Close), last.MA200)
                      \/ Gt(last.MA50, last.MA200)
        cond_volume == Gt(Num(last.Volume), FMul(Rat(5, 2), last.Vol20))
        cond_candle == bullish_confirmation(frame)
    IN  [buy |-> cond_rsi /\ cond_trend /\ cond_volume /\ cond_candle,
         info |-> [price |-> last.Close,
                   RSI14 |-> last.RSI14,
                   VolumeMultiple |-> FDiv(Num(last.Volume), last.Vol20)]]

\* frame is what fetch_ohlcv(symbol) returned, not empty
check_buy(frame) ==
    IF Shape(frame) < 200 THEN [buy |-> FALSE, info |-> NoInfo]
    ELSE
    LET last == frame.last
        cond_rsi == /\ Lt(last.RSI14, Num(30))
                    /\ Lt(last.RSI7, Num(35))
                    /\ Lt(last.RSI30, Num(40))
        cond_trend == \/ Gt(Num(last.Close), last.MA200)
                      \/ Gt(last.MA50, last.MA200)
        cond_volume == Gt(Num(last.Volume), FMul(Rat(5, 2), last.Vol20))
        cond_candle == bullish_confirmation(frame)
    IN  [buy |-> cond_rsi /\ cond_trend /\ cond_volume /\ cond_candle,
         info |-> [price |-> last.Close,
                   RSI14 |-> last.RSI14,
                   VolumeMultiple |-> FDiv(Num(last.Volume), last.Vol20)]]

\* check_sell that takes missing data for a stop-loss exit
check_sell_nodata_exit(pos, frame) ==
    IF Empty(frame) THEN [sell |-> TRUE, reason |-> "STOP_LOSS", price |-> 0]
    ELSE
    LET last == frame.last
        price == last.Close
    IN  IF price <= pos.stop_loss
            THEN [sell |-> TRUE, reason |-> "STOP_LOSS", price |-> price]
        ELSE IF price >= pos.target_price
            THEN [sell |-> TRUE, reason |-> "TARGET_HIT", price |-> price]
        ELSE IF Gt(last.RSI14, Num(50))
            THEN [sell |-> TRUE, reason |-> "RSI_EXIT", price |-> price]
        ELSE IF Ge(Num(price), last.SwingHigh30)
            THEN [sell |-> TRUE, reason |-> "SWING_HIGH_EXIT", price |-> price]
        ELSE [sell |-> FALSE, reason |-> "", price |-> price]

\* check_sell that tries SWING_HIGH_EXIT before RSI_EXIT
check_sell_swing_first(pos, frame) ==
    IF Empty(frame) THEN [sell |-> FALSE, reason |-> "", price |-> 0]
    ELSE
    LET last == frame.last
        price == last.Close
    IN  IF price <= pos.stop_loss
            THEN [sell |-> TRUE, reason |-> "STOP_LOSS", price |-> price]
        ELSE IF price >= pos.target_price
            THEN [sell |-> TRUE, reason |-> "TARGET_HIT", price |-> price]
        ELSE IF Ge(Num(price), last.SwingHigh30)
            THEN [sell |-> TRUE, reason |-> "SWING_HIGH_EXIT", price |-> price]
        ELSE IF Gt(last.RSI14, Num(50))
            THEN [sell |-> TRUE, reason |-> "RSI_EXIT", price |-> price]
        ELSE [sell |-> FALSE, reason |-> "", price |-> price]

\* check_sell whose RSI rule is "not RSI14 <= 50", which an undefined RSI14
\* meets
check_sell_not_le(pos, frame) ==
    IF Empty(frame) THEN [sell |-> FALSE, reason |-> "", price |-> 0]
    ELSE
    LET last == frame.last
        price == last.Close
    IN  IF price <= pos.stop_loss
            THEN [sell |-> TRUE, reason |-> "STOP_LOSS", price |-> price]
        ELSE IF price >= pos.target_price
            THEN [sell |-> TRUE, reason |-> "TARGET_HIT", price |-> price]
        ELSE IF ~Le(last.RSI14, Num(50))
            THEN [sell |-> TRUE, reason |-> "RSI_EXIT", price |-> price]
        ELSE IF Ge(Num(price), last.SwingHigh30)
            THEN [sell |-> TRUE, reason |-> "SWING_HIGH_EXIT", price |-> price]
        ELSE [sell |-> FALSE, reason |-> "", price |-> price]

\* frame is what fetch_ohlcv(pos["symbol"]) returned
check_sell(pos, frame) ==
    IF Empty(frame) THEN [sell |-> FALSE, reason |-> "", price |-> 0]
    ELSE
    LET last == frame.last
        price == last.Close
    IN  IF price <= pos.stop_loss
            THEN [sell |-> TRUE, reason |-> "STOP_LOSS", price |-> price]
        ELSE IF price >= pos.target_price
            THEN [sell |-> TRUE, reason |-> "TARGET_HIT", price |-> price]
        ELSE IF Gt(last.RSI14, Num(50))
            THEN [sell |-> TRUE, reason |-> "RSI_EXIT", price |-> price]
        ELSE IF Ge(Num(price), last.SwingHigh30)
            THEN [sell |-> TRUE, reason |-> "SWING_HIGH_EXIT", price |-> price]
        ELSE [sell |-> FALSE, reason |-> "", price |-> price]

----------------------------------------------------------------------------
(* The cycle run_scan, one step per loop iteration *)

VARIABLES
    ledger,        \* portfolio.json: the persisted list of position dicts
    clock,         \* datetime.now(): ticks at every add_position
    cycle,         \* cycles started so far
    pc,            \* "idle", "entry" (buy scan loop) or "exit" (sell check loop)
    error,         \* the exception the last cycle raised, or "none"
    symbols,       \* run_scan: symbols
    i,             \* run_scan: position of the buy scan in symbols
    df,            \* the series the last fetch_ohlcv returned (its descriptor)
    scan_results,  \* run_scan: scan_results
    buy_rows,      \* run_scan: buy_rows
    sell_rows,     \* run_scan: sell_rows
    portfolio,     \* run_scan: portfolio, the list loaded for the sell check
    j,             \* run_scan: position of the sell check in portfolio
    sold,          \* run_scan: sell, reason, price of the last check_sell
    start_ledger   \* portfolio.json as it was when the cycle started

vars == <<ledger, clock, cycle, pc, error, symbols, i, df, scan_results,
          buy_rows, sell_rows, portfolio, j, sold, start_ledger>>

NoSell == [sell |-> FALSE, reason |-> "", price |-> 0]

\* portfolio.json is created as "[]" when the module is first imported
Init ==
    /\ ledger = << >>
    /\ clock = 1
    /\ cycle = 0
    /\ pc = "idle"
    /\ error = "none"
    /\ symbols = << >>
    /\ i = 1
    /\ df = NoData
    /\ scan_results = << >>
    /\ buy_rows = << >>
    /\ sell_rows = << >>
    /\ portfolio = << >>
    /\ j = 1
    /\ sold = NoSell
    /\ start_ledger = << >>

\* load_portfolio that answers the list of the start of the cycle
load_portfolio_stale == start_ledger

\* json.loads(PORTFOLIO_PATH.read_text())
load_portfolio == ledger

\* add_position that re-opens a CLOSED record of the symbol when there is one
add_position_reopen(symbol, price) ==
    IF \E k \in DOMAIN ledger : ledger[k].symbol = symbol /\ ledger[k].status = "CLOSED"
    THEN LET k == CHOOSE x \in DOMAIN ledger :
                      ledger[x].symbol = symbol /\ ledger[x].status = "CLOSED"
         IN  [ledger EXCEPT ![k] = new_position(symbol, price, clock)]
    ELSE Append(ledger, new_position(symbol, price, clock))

\* add_position that saves the new position alone, without the loaded list
add_position_alone(symbol, price) ==
    << new_position(symbol, price, clock) >>

\* add_position that opens nothing for an instrument that has an OPEN record
add_position_unique(symbol, price) ==
    IF \E k \in DOMAIN ledger : ledger[k].symbol = symbol /\ ledger[k].status = "OPEN"
    THEN ledger
    ELSE Append(ledger, new_position(symbol, price, clock))

\* the list add_position saves: the loaded list with the new position appended
add_position(symbol, price) ==
    Append(load_portfolio, new_position(symbol, price, clock))

\* is_open without the status test
is_open_any(pos) == TRUE

\* the test of the sell check: pos["status"] != "OPEN" skips the record
is_open(pos) == pos.status = "OPEN"

\* run_scan is called: the universe is loaded, or the call raises
StartCycle(csv) ==
    LET r == fetch_nse500_symbols(csv)
    IN  /\ pc = "idle"
        /\ cycle < MaxCycles
        /\ Len(ledger) + Len(r.symbols) <= MaxLedger
        /\ cycle' = cycle + 1
        /\ error' = r.error
        /\ symbols' = r.symbols
        /\ i' = 1
        /\ scan_results' = << >>
        /\ buy_rows' = << >>
        /\ sell_rows' = << >>
        /\ portfolio' = << >>
        /\ j' = 1
        /\ sold' = NoSell
        /\ start_ledger' = ledger
        /\ pc' = IF r.error = "none" THEN "entry" ELSE "idle"
        /\ UNCHANGED <<ledger, clock, df>>

\* ScanRow that keeps the rows of the BUYs only: a non-buy has no decision
ScanRow_buys_only(symbol, res) ==
    IF res.buy THEN [symbol |-> symbol, buy |-> res.buy] @@ res.info
    ELSE [symbol |-> symbol]

\* {"symbol": symbol, "buy": buy, **info}
ScanRow(symbol, res) == [symbol |-> symbol, buy |-> res.buy] @@ res.info

\* one iteration of the buy scan: fetch, check_buy, add_position on a BUY
EntryStep(d) ==
    /\ pc = "entry"
    /\ i <= Len(symbols)
    /\ df' = d
    /\ i' = i + 1
    /\ IF Empty(fetch_ohlcv(d))
       THEN UNCHANGED <<scan_results, buy_rows, ledger, clock>>
       ELSE LET res == check_buy(fetch_ohlcv(d))
                row == ScanRow(symbols[i], res)
            IN  /\ scan_results' = Append(scan_results, row)
                /\ IF res.buy
                   THEN /\ ledger' = add_position(symbols[i], res.info.price)
                        /\ clock' = clock + 1
                        /\ buy_rows' = Append(buy_rows, row)
                   ELSE UNCHANGED <<ledger, clock, buy_rows>>
    /\ UNCHANGED <<cycle, pc, error, symbols, sell_rows, portfolio, j, sold,
                   start_ledger>>

\* the buy scan is over: portfolio = load_portfolio()
EntryDone ==
    /\ pc = "entry"
    /\ i > Len(symbols)
    /\ portfolio' = load_portfolio
    /\ j' = 1
    /\ pc' = "exit"
    /\ UNCHANGED <<ledger, clock, cycle, error, symbols, i, df, scan_results,
                   buy_rows, sell_rows, sold, start_ledger>>

\* one iteration of the sell check on a record that is not OPEN: continue
ExitSkip ==
    /\ pc = "exit"
    /\ j <= Len(portfolio)
    /\ ~is_open(portfolio[j])
    /\ j' = j + 1
    /\ UNCHANGED <<ledger, clock, cycle, pc, error, symbols, i, df, scan_results,
                   buy_rows, sell_rows, portfolio, sold, start_ledger>>

\* one iteration of the sell check on an OPEN record: fetch, check_sell,
\* close on an exit
ExitStep(d) ==
    /\ pc = "exit"
    /\ j <= Len(portfolio)
    /\ is_open(portfolio[j])
    /\ df' = d
    /\ j' = j + 1
    /\ LET pos == portfolio[j]
           res == check_sell(pos, fetch_ohlcv(d))
       IN  /\ sold' = res
           /\ IF res.sell
              THEN /\ portfolio' = [portfolio EXCEPT
                                    ![j] = closed_position(pos, res.price, res.reason)]
                   /\ sell_rows' = Append(sell_rows,
                                    [symbol |-> pos.symbol,
                                     exit_price |-> res.price,
                                     reason |-> res.reason])
              ELSE UNCHANGED <<portfolio, sell_rows>>
    /\ UNCHANGED <<ledger, clock, cycle, pc, error, symbols, i, scan_results,
                   buy_rows, start_ledger>>

\* ExitDone without save_portfolio
ExitDone_unsaved ==
    /\ pc = "exit"
    /\ j > Len(portfolio)
    /\ pc' = "idle"
    /\ UNCHANGED <<ledger, clock, cycle, error, symbols, i, df, scan_results,
                   buy_rows, sell_rows, portfolio, j, sold, start_ledger>>

\* the sell check is over: save_portfolio(portfolio), the three tables return
ExitDone ==
    /\ pc = "exit"
    /\ j > Len(portfolio)
    /\ ledger' = portfolio
    /\ pc' = "idle"
    /\ UNCHANGED <<clock, cycle, error, symbols, i, df, scan_results, buy_rows,
                   sell_rows, portfolio, j, sold, start_ledger>>

Next ==
    \/ \E csv \in CsvSet : StartCycle(csv)
    \/ \E d \in DfSet : EntryStep(d)
    \/ EntryDone
    \/ ExitSkip
    \/ \E d \in DfSet : ExitStep(d)
    \/ ExitDone

Spec == Init /\ [][Next]_vars

----------------------------------------------------------------------------
(* The entry rule alone: one cycle over a universe of one instrument, the  *)
(* bar source answering any series of DfBuySet.                            *)

NextBuy ==
    \/ (cycle = 0 /\ StartCycle(Csv(<<"A">>)))
    \/ \E d \in DfBuySet : EntryStep(d)
    \/ EntryDone

SpecBuy == Init /\ [][NextBuy]_vars

(* The exit rule alone: one cycle that opens a position at 1.00, 1.01 or   *)
(* 0.02 and evaluates its exit on any series of DfSellSet.                 *)

NextSell ==
    \/ (cycle = 0 /\ StartCycle(Csv(<<"A">>)))
    \/ \E d \in DfSellBuys : EntryStep(d)
    \/ EntryDone
    \/ \E d \in DfSellSet : ExitStep(d)
    \/ ExitDone

SpecSell == Init /\ [][NextSell]_vars

(* Both rules: one cycle over a universe of one instrument, the entry rule *)
(* tried on any series of DfBuySet and the exit rule, on the position a    *)
(* BUY opened, on any series of DfSellSet.                                 *)

NextRules ==
    \/ (cycle = 0 /\ StartCycle(Csv(<<"A">>)))
    \/ \E d \in DfBuySet : EntryStep(d)
    \/ EntryDone
    \/ \E d \in DfSellSet : ExitStep(d)
    \/ ExitDone

SpecRules == Init /\ [][NextRules]_vars

----------------------------------------------------------------------------
(* Properties of the cycle *)

\* a cycle has run to its end without raising
CycleDone == pc = "idle" /\ cycle > 0 /\ error = "none"

\* the records the running (or last) cycle appended to portfolio.json
NewInCycle == {k \in DOMAIN ledger : k > Len(start_ledger)}

\* C1 as stated: a position opened in the entry phase of a cycle is not
\* exit-evaluated in that cycle, so no record is both created and CLOSED
\* within one cycle.
C1_NoSameCycleClose ==
    \A k \in NewInCycle : ledger[k].status = "OPEN"

\* C1 amended: the working set of the sell check is the list loaded once the
\* buy scan is over: it holds, after the records of the start of the cycle,
\* one record per BUY of this cycle, and the records the sell check has not
\* reached yet are as persisted; so a position opened in the entry phase is
\* exit-evaluated in the same cycle.
C1_ExitSetIncludesNew ==
    pc = "exit" =>
        /\ Len(portfolio) = Len(start_ledger) + Len(buy_rows)
        /\ \A k \in DOMAIN portfolio : k >= j => portfolio[k] = ledger[k]
        /\ \A k \in DOMAIN buy_rows :
              LET pos == portfolio[Len(start_ledger) + k]
              IN  pos.symbol = buy_rows[k].symbol /\ pos.buy_price = buy_rows[k].price

\* a record created in this cycle has been closed in this cycle
C1_Witness ==
    \E k \in NewInCycle : ledger[k].status = "CLOSED" /\ buy_rows # << >>

\* C2: a record that is CLOSED in portfolio.json stays as it is, CLOSED, in
\* every later state; a later BUY of its instrument appends a new record.
C2_ClosedStaysClosed ==
    [][\A k \in DOMAIN ledger :
          /\ ledger[k].status \in {"OPEN", "CLOSED"}
          /\ ledger[k].status = "CLOSED" =>
                (k \in DOMAIN ledger' /\ ledger'[k] = ledger[k])]_vars

\* a CLOSED record followed by a later record of the same instrument
C2_Witness ==
    \E a, b \in DOMAIN ledger :
        /\ a < b
        /\ ledger[a].status = "CLOSED"
        /\ ledger[b].symbol = ledger[a].symbol
        /\ ledger[b].buy_date > ledger[a].buy_date

\* the sell check passes over a record that is already CLOSED
VisitClosed ==
    /\ pc = "exit"
    /\ j <= Len(portfolio)
    /\ portfolio[j].status = "CLOSED"
    /\ j' = j + 1

\* C3 as stated: closing a position that is already CLOSED raises a failure.
C3_CloseClosedRaises ==
    [][VisitClosed => error' # "none"]_vars

\* C3 amended: the sell check never closes a CLOSED position: it passes over
\* the record without raising and without touching its exit price and
\* reason; an OPEN position whose exit fires becomes CLOSED, and a CLOSED
\* record of the working list never changes again.
C3_ClosedIsSkipped ==
    [][/\ VisitClosed =>
            /\ error' = "none"
            /\ pc' = "exit"
            /\ portfolio' = portfolio
            /\ sell_rows' = sell_rows
            /\ sold' = sold
       /\ \A k \in DOMAIN portfolio :
            (pc = "exit" /\ pc' = "exit" /\ portfolio[k].status = "CLOSED")
                => portfolio'[k] = portfolio[k]
       /\ \A k \in DOMAIN portfolio :
            (pc = "exit" /\ pc' = "exit" /\ portfolio'[k] # portfolio[k])
                => /\ k = j
                   /\ portfolio[k].status = "OPEN"
                   /\ portfolio'[k].status = "CLOSED"]_vars

\* the sell check has passed over a record closed in an earlier cycle
C3_Witness ==
    /\ pc = "exit"
    /\ j > 1
    /\ j - 1 <= Len(start_ledger)
    /\ start_ledger[j - 1].status = "CLOSED"
    /\ portfolio[j - 1] = start_ledger[j - 1]

\* C4: every position satisfies stop_loss < buy_price < target_price.
C4_Ordering ==
    \A k \in DOMAIN ledger :
        /\ ledger[k].stop_loss < ledger[k].buy_price
        /\ ledger[k].buy_price < ledger[k].target_price

\* C5 as stated: stop_loss is exactly 0.93 x buy_price and target_price is
\* exactly 1.10 x buy_price.
C5_Exact ==
    \A k \in DOMAIN ledger :
        /\ 100 * ledger[k].stop_loss = 93 * ledger[k].buy_price
        /\ 100 * ledger[k].target_price = 110 * ledger[k].buy_price

\* C5 amended: stop_loss is 0.93 x buy_price and target_price is
\* 1.10 x buy_price, each rounded to two decimals (to the nearest paise).
C5_Rounded ==
    \A k \in DOMAIN ledger :
        /\ 2 * Abs(100 * ledger[k].stop_loss - 93 * ledger[k].buy_price) <= 100
        /\ 2 * Abs(100 * ledger[k].target_price - 110 * ledger[k].buy_price) <= 100

\* a position whose stop-loss is not the exact product
C5_Witness ==
    \E k \in DOMAIN ledger : 100 * ledger[k].stop_loss # 93 * ledger[k].buy_price

\* C9 as stated: a cycle over an empty universe returns empty buys, sells and
\* trace and leaves the ledger unchanged, whatever the starting ledger.
C9_EmptyUniverseNoChange ==
    (CycleDone /\ symbols = << >>) =>
        /\ buy_rows = << >>
        /\ sell_rows = << >>
        /\ scan_results = << >>
        /\ ledger = start_ledger

\* C9 amended: a cycle over an empty universe returns empty buys and an
\* empty trace and appends nothing; the sell check still runs: a record
\* changes only by going OPEN -> CLOSED, with one sell row for each, so
\* sells are empty and the ledger is unchanged when no exit fires, as when
\* the starting ledger holds no OPEN position.
C9_EmptyUniverseStillSells ==
    (CycleDone /\ symbols = << >>) =>
        /\ buy_rows = << >>
        /\ scan_results = << >>
        /\ Len(ledger) = Len(start_ledger)
        /\ \A k \in DOMAIN ledger :
              \/ ledger[k] = start_ledger[k]
              \/ /\ start_ledger[k].status = "OPEN"
                 /\ ledger[k].status = "CLOSED"
                 /\ [ledger[k] EXCEPT !.status = "OPEN"]
                        = [sell_price |-> ledger[k].sell_price,
                           sell_reason |-> ledger[k].sell_reason] @@ start_ledger[k]
        /\ Len(sell_rows) = Cardinality({k \in DOMAIN ledger : ledger[k] # start_ledger[k]})
        /\ (\A k \in DOMAIN start_ledger : start_ledger[k].status # "OPEN")
              => (sell_rows = << >> /\ ledger = start_ledger)

\* a cycle over an empty universe has closed a position
C9_Witness ==
    /\ CycleDone
    /\ symbols = << >>
    /\ sell_rows # << >>
    /\ ledger # start_ledger

\* the sell check evaluates the OPEN record at j
VisitOpen ==
    /\ pc = "exit"
    /\ j <= Len(portfolio)
    /\ portfolio[j].status = "OPEN"
    /\ j' = j + 1

\* C10: when the bar source has no data for an OPEN position, check_sell
\* returns no exit with price 0, the position stays OPEN and unchanged and no
\* sell row is produced; it is still OPEN in the saved ledger, and the next
\* sell check loads it and cannot end before it has evaluated it.
C10_NoDataDefers ==
    [][/\ (VisitOpen /\ Empty(fetch_ohlcv(df'))) =>
            /\ sold' = [sell |-> FALSE, reason |-> "", price |-> 0]
            /\ portfolio' = portfolio
            /\ sell_rows' = sell_rows
            /\ ledger' = ledger
       /\ (pc = "exit" /\ pc' = "idle") =>
            /\ j > Len(portfolio)
            /\ ledger' = portfolio
       /\ (pc = "entry" /\ pc' = "exit") =>
            /\ j' = 1
            /\ portfolio' = ledger
       /\ (pc = "exit" /\ pc' = "exit") =>
            /\ j' = j + 1
            /\ portfolio[j].status = "OPEN" =>
                  sold'.price = IF Empty(fetch_ohlcv(df')) THEN 0 ELSE fetch_ohlcv(df').last.Close]_vars

\* a position deferred for lack of data in an earlier cycle is evaluated again
C10_Witness ==
    /\ pc = "exit"
    /\ j > 1
    /\ j - 1 <= Len(start_ledger)
    /\ start_ledger[j - 1].status = "OPEN"
    /\ Empty(fetch_ohlcv(df))
    /\ sold = [sell |-> FALSE, reason |-> "", price |-> 0]
    /\ portfolio[j - 1] = start_ledger[j - 1]

----------------------------------------------------------------------------
(* Properties of the rules *)

\* the exit rules in their order of priority
ExitReasons == <<"STOP_LOSS", "TARGET_HIT", "RSI_EXIT", "SWING_HIGH_EXIT">>

\* the conditions of the four exit rules on the last bar of frame, in the
\* order of ExitReasons
ExitConds(pos, frame) ==
    << frame.last.Close <= pos.stop_loss,
       frame.last.Close >= pos.target_price,
       Gt(frame.last.RSI14, Num(50)),
       Ge(Num(frame.last.Close), frame.last.SwingHigh30) >>

\* the result the claim C6 asks of check_sell for the matches conds at price
FirstMatch(conds, price) ==
    IF \E r \in 1..4 : conds[r]
    THEN [sell |-> TRUE,
          reason |-> ExitReasons[CHOOSE r \in 1..4 :
                                    conds[r] /\ \A q \in 1..(r - 1) : ~conds[q]],
          price |-> price]
    ELSE [sell |-> FALSE, reason |-> "", price |-> price]

\* C6: on a series with data, check_sell returns the reason of the first of
\* STOP_LOSS (price <= stop_loss), TARGET_HIT (price >= target_price),
\* RSI_EXIT (RSI14 > 50), SWING_HIGH_EXIT (price >= SwingHigh30) whose
\* condition holds on the latest bar, and no exit when none holds; the price
\* it returns is the latest close in both cases.
C6_FirstMatchWins ==
    [][(VisitOpen /\ ~Empty(fetch_ohlcv(df'))) =>
          sold' = FirstMatch(ExitConds(portfolio[j], fetch_ohlcv(df')),
                             fetch_ohlcv(df').last.Close)]_vars

\* check_sell has answered RSI_EXIT on a bar where SWING_HIGH_EXIT matches too
C6_Witness ==
    /\ pc = "exit"
    /\ j > 1
    /\ ~Empty(fetch_ohlcv(df))
    /\ sold.reason = "RSI_EXIT"
    /\ ExitConds(portfolio[j - 1], fetch_ohlcv(df))
          = <<FALSE, FALSE, TRUE, TRUE>>

\* the buy scan evaluates the series df' of the instrument symbols[i]
ScanStep == pc = "entry" /\ i <= Len(symbols) /\ i' = i + 1

\* the four entry rules on the last bar of frame
EntryRsi(frame) ==
    /\ Lt(frame.last.RSI14, Num(30))
    /\ Lt(frame.last.RSI7, Num(35))
    /\ Lt(frame.last.RSI30, Num(40))
EntryTrend(frame) ==
    \/ Gt(Num(frame.last.Close), frame.last.MA200)
    \/ Gt(frame.last.MA50, frame.last.MA200)
EntryVolume(frame) ==
    2 * frame.last.Volume * frame.last.Vol20.den > 5 * frame.last.Vol20.num
EntryCandle(frame) ==
    frame.last.Close > frame.last.Open /\ frame.last.Close > frame.prev.Close

\* C7: on a series of fewer than 200 bars check_buy returns no BUY and empty
\* evidence, whatever the bars are: the scan row holds the symbol and
\* buy = FALSE only, and the cycle opens no position for the instrument.
C7_ShortSeriesNone ==
    [][(ScanStep /\ Shape(fetch_ohlcv(df')) < 200) =>
          /\ ~Empty(fetch_ohlcv(df')) =>
                scan_results' = Append(scan_results,
                                       [symbol |-> symbols[i], buy |-> FALSE])
          /\ buy_rows' = buy_rows
          /\ ledger' = ledger]_vars

\* a series of 199 bars whose last bar meets the RSI, volume and candle
\* rules has been scanned
C7_Witness ==
    /\ pc = "entry"
    /\ i > 1
    /\ Shape(fetch_ohlcv(df)) = 199
    /\ EntryRsi(fetch_ohlcv(df))
    /\ EntryVolume(fetch_ohlcv(df))
    /\ EntryCandle(fetch_ohlcv(df))
    /\ scan_results # << >>

\* the entry rules hold on frame but for one value that is on its threshold
OnThreshold(frame) ==
    \/ /\ frame.last.RSI14 = Num(30)
       /\ Lt(frame.last.RSI7, Num(35)) /\ Lt(frame.last.RSI30, Num(40))
       /\ EntryTrend(frame) /\ EntryVolume(frame) /\ EntryCandle(frame)
    \/ /\ 2 * frame.last.Volume * frame.last.Vol20.den = 5 * frame.last.Vol20.num
       /\ IsFinite(frame.last.Vol20)
       /\ EntryRsi(frame) /\ EntryTrend(frame) /\ EntryCandle(frame)
    \/ /\ frame.last.Close = frame.last.Open
       /\ frame.last.Close > frame.prev.Close
       /\ EntryRsi(frame) /\ EntryTrend(frame) /\ EntryVolume(frame)
    \/ /\ frame.last.Close = frame.prev.Close
       /\ frame.last.Close > frame.last.Open
       /\ EntryRsi(frame) /\ EntryTrend(frame) /\ EntryVolume(frame)

\* C8: on a series of at least 200 bars check_buy returns BUY exactly when
\* the four rules hold on the last bar (RSI14 < 30, RSI7 < 35, RSI30 < 40;
\* close > MA200 or MA50 > MA200; volume > 2.5 x Vol20; close > open and
\* close > previous close), the evidence price is the latest close, and a
\* value on its threshold (RSI14 = 30, volume = 2.5 x Vol20, close = open,
\* close = previous close) gives no BUY.
C8_BuyIffFourRules ==
    [][(ScanStep /\ Shape(fetch_ohlcv(df')) >= 200) =>
          /\ Len(scan_results') = Len(scan_results) + 1
          /\ scan_results'[Len(scan_results')].symbol = symbols[i]
          /\ scan_results'[Len(scan_results')].price = fetch_ohlcv(df').last.Close
          /\ scan_results'[Len(scan_results')].buy
                <=> /\ EntryRsi(fetch_ohlcv(df'))
                    /\ EntryTrend(fetch_ohlcv(df'))
                    /\ EntryVolume(fetch_ohlcv(df'))
                    /\ EntryCandle(fetch_ohlcv(df'))
          /\ OnThreshold(fetch_ohlcv(df')) => ~scan_results'[Len(scan_results')].buy]_vars

\* a series of 200 bars with RSI14 = 30 on its last bar and every other rule
\* met has been scanned
C8_Witness ==
    /\ pc = "entry"
    /\ i > 1
    /\ Shape(fetch_ohlcv(df)) >= 200
    /\ fetch_ohlcv(df).last.RSI14 = Num(30)
    /\ OnThreshold(fetch_ohlcv(df))
    /\ scan_results # << >>
    /\ ~scan_results[Len(scan_results)].buy

----------------------------------------------------------------------------
(* Properties of the ledger *)

\* the fields add_position writes
EntryFields == {"symbol", "buy_price", "buy_date", "stop_loss", "target_price", "status"}

\* new is old closed: status OPEN -> CLOSED, the exit price and the exit
\* reason attached, every other field as it was
ClosedFrom(old, new) ==
    /\ old.status = "OPEN"
    /\ new.status = "CLOSED"
    /\ DOMAIN old = EntryFields
    /\ DOMAIN new = EntryFields \cup {"sell_price", "sell_reason"}
    /\ \A f \in EntryFields \ {"status"} : new[f] = old[f]

\* C11: the ledger is append-only: its length never decreases, no record is
\* deleted or moves, and an existing record changes only by going
\* OPEN -> CLOSED with the exit price and the exit reason attached (symbol,
\* buy_price, buy_date, stop_loss and target_price never change).
C11_AppendOnly ==
    [][/\ Len(ledger') >= Len(ledger)
       /\ \A k \in DOMAIN ledger :
             ledger'[k] = ledger[k] \/ ClosedFrom(ledger[k], ledger'[k])]_vars

\* a record has been closed in place and a later record follows it
C11_Witness ==
    \E a, b \in DOMAIN ledger :
        /\ a < b
        /\ ledger[a].status = "CLOSED"
        /\ start_ledger # << >>
        /\ ClosedFrom(start_ledger[1], ledger[1])

\* the record add_position appends for the scan row: OPEN, its symbol and
\* its buy_price those of the row
OpenedBy(row, pos) ==
    /\ pos.status = "OPEN"
    /\ pos.symbol = row.symbol
    /\ pos.buy_price = row.price
    /\ DOMAIN pos = EntryFields

\* C12: the persisted ledger reflects every open and every close of a
\* cycle.  A BUY appends its OPEN record to the persisted ledger at once;
\* the exit phase loads that ledger, marks the position whose exit fires
\* CLOSED with the price and reason of that exit, and saves the list it
\* worked on; so after a full cycle the ledger is the ledger of the cycle's
\* start, each record unchanged or closed in place, followed by one record
\* per BUY in universe order, and as many records were closed as exits fired.
C12_CycleReflected ==
    [][/\ (ScanStep /\ Len(buy_rows') > Len(buy_rows)) =>
             /\ ledger' = Append(ledger, ledger'[Len(ledger')])
             /\ OpenedBy(buy_rows'[Len(buy_rows')], ledger'[Len(ledger')])
       /\ (pc = "entry" /\ pc' = "exit") => portfolio' = ledger
       /\ (VisitOpen /\ sold'.sell) =>
             /\ ClosedFrom(portfolio[j], portfolio'[j])
             /\ portfolio'[j].sell_price = sold'.price
             /\ portfolio'[j].sell_reason = sold'.reason
             /\ \A k \in DOMAIN portfolio : k # j => portfolio'[k] = portfolio[k]
       /\ (pc = "exit" /\ pc' = "exit") => ledger' = ledger
       /\ (pc = "exit" /\ pc' = "idle") => ledger' = portfolio
       /\ CycleDone' =>
             /\ Len(ledger') = Len(start_ledger') + Len(buy_rows')
             /\ \A k \in DOMAIN start_ledger' :
                   \/ ledger'[k] = start_ledger'[k]
                   \/ ClosedFrom(start_ledger'[k], ledger'[k])
             /\ \A k \in DOMAIN buy_rows' :
                   LET pos == ledger'[Len(start_ledger') + k]
                   IN  /\ pos.symbol = buy_rows'[k].symbol
                       /\ pos.buy_price = buy_rows'[k].price
                       /\ pos.status \in {"OPEN", "CLOSED"}
             /\ Len(sell_rows')
                   = Cardinality({k \in DOMAIN ledger' :
                         /\ ledger'[k].status = "CLOSED"
                         /\ k \in DOMAIN start_ledger' =>
                               start_ledger'[k].status = "OPEN"})]_vars

\* a full cycle has opened a position and closed a position of its start
C12_Witness ==
    /\ CycleDone
    /\ buy_rows # << >>
    /\ sell_rows # << >>
    /\ Len(start_ledger) = 1
    /\ Len(ledger) = 2
    /\ ClosedFrom(start_ledger[1], ledger[1])
    /\ ledger[2].status = "OPEN"

\* C13: instruments are not unique in the ledger.  A BUY for an instrument
\* that already has a record appends one more OPEN record and leaves every
\* existing record as it is; the sell check visits the records one by one,
\* cannot end before the last, decides STOP_LOSS and TARGET_HIT of a record
\* against the stop_loss and target_price of that record, and changes no
\* other record.
C13_NoUniqueness ==
    [][/\ (/\ ScanStep
           /\ Len(buy_rows') > Len(buy_rows)
           /\ \E k \in DOMAIN ledger : ledger[k].symbol = symbols[i]) =>
             /\ Len(ledger') = Len(ledger) + 1
             /\ \A k \in DOMAIN ledger : ledger'[k] = ledger[k]
             /\ ledger'[Len(ledger')].symbol = symbols[i]
             /\ ledger'[Len(ledger')].status = "OPEN"
       /\ (pc = "exit" /\ pc' = "exit") => j' = j + 1
       /\ (pc = "exit" /\ pc' = "idle") => j > Len(portfolio)
       /\ VisitOpen =>
             /\ \A k \in DOMAIN portfolio : k # j => portfolio'[k] = portfolio[k]
             /\ sold'.sell => portfolio'[j].status = "CLOSED"
             /\ ~sold'.sell => portfolio'[j] = portfolio[j]
             /\ sold'.reason = "STOP_LOSS" <=>
                   /\ ~Empty(fetch_ohlcv(df'))
                   /\ sold'.price <= portfolio[j].stop_loss
             /\ sold'.reason = "TARGET_HIT" <=>
                   /\ ~Empty(fetch_ohlcv(df'))
                   /\ sold'.price > portfolio[j].stop_loss
                   /\ sold'.price >= portfolio[j].target_price]_vars

\* two records of one instrument, closed at the same price, the one by its
\* stop-loss and the other by its target
C13_Witness ==
    \E a, b \in DOMAIN ledger :
        /\ a < b
        /\ ledger[a].symbol = ledger[b].symbol
        /\ ledger[a].status = "CLOSED"
        /\ ledger[b].status = "CLOSED"
        /\ ledger[a].sell_price = ledger[b].sell_price
        /\ ledger[a].sell_reason = "STOP_LOSS"
        /\ ledger[b].sell_reason = "TARGET_HIT"

----------------------------------------------------------------------------
(* Properties of the tables a cycle returns *)

\* the symbols of the rows of a table, in order
SymbolsOf(rows) == [k \in DOMAIN rows |-> rows[k].symbol]

\* a is a subsequence of b: the elements of a, in order, among those of b
RECURSIVE IsSubSeq(_, _)
IsSubSeq(a, b) ==
    IF a = << >> THEN TRUE
    ELSE IF b = << >> THEN FALSE
    ELSE IF Head(a) = Head(b) THEN IsSubSeq(Tail(a), Tail(b))
    ELSE IsSubSeq(a, Tail(b))

\* the buy scan is over
ScanOver == error = "none" /\ (pc = "exit" \/ (pc = "idle" /\ cycle > 0))

\* C14 as stated: the trace of a cycle holds an entry for every instrument
\* of the universe.
C14_TraceHasEveryInstrument ==
    ScanOver => SymbolsOf(scan_results) = symbols

\* C14 amended: the trace holds one entry, in universe order, for every
\* instrument the bar source had data for, a BUY or not: an instrument
\* without data gets no entry; the entry holds the symbol and the decision,
\* and the evidence (price, RSI14, VolumeMultiple) when the series has at
\* least 200 bars.
C14_TraceHasEveryFetched ==
    [][/\ ScanStep =>
             IF Empty(fetch_ohlcv(df'))
             THEN scan_results' = scan_results
             ELSE /\ Len(scan_results') = Len(scan_results) + 1
                  /\ SubSeq(scan_results', 1, Len(scan_results)) = scan_results
                  /\ scan_results'[Len(scan_results')].symbol = symbols[i]
                  /\ DOMAIN scan_results'[Len(scan_results')]
                        = IF Shape(fetch_ohlcv(df')) < 200
                          THEN {"symbol", "buy"}
                          ELSE {"symbol", "buy", "price", "RSI14", "VolumeMultiple"}
                  /\ scan_results'[Len(scan_results')].buy \in BOOLEAN
       /\ ~ScanStep => (scan_results' = scan_results \/ scan_results' = << >>)
       /\ IsSubSeq(SymbolsOf(scan_results'), symbols')]_vars

\* the scan of a universe of two is over and the trace holds one entry, a
\* non-buy: the other instrument had no data
C14_Witness ==
    /\ ScanOver
    /\ Len(symbols) = 2
    /\ Len(scan_results) = 1
    /\ ~scan_results[1].buy
    /\ buy_rows = << >>

----------------------------------------------------------------------------
(* Properties of the universe source *)

\* the CSV file is absent or has no Symbol column
BadCsv(csv) == ~csv.exists \/ ~csv.has_symbol

\* C15: when the CSV file is absent or has no Symbol column, run_scan
\* raises (FileNotFoundError or ValueError) to its caller before it reads or
\* writes the ledger: the cycle ends at once, the persisted ledger is the one
\* before the cycle and no table is produced; an exception is raised in no
\* other case.
C15_UniverseErrorSurfaced ==
    [][/\ \A csv \in CsvSet :
             StartCycle(csv) =>
                /\ BadCsv(csv) <=> error' # "none"
                /\ ~csv.exists <=> error' = "FileNotFoundError"
                /\ BadCsv(csv) =>
                      /\ pc' = "idle"
                      /\ ledger' = ledger
                      /\ symbols' = << >>
                      /\ scan_results' = << >> /\ buy_rows' = << >> /\ sell_rows' = << >>
       /\ error # "none" => (pc = "idle" /\ (ledger' # ledger => error' = "none"))
       /\ (error' # error) => (pc = "idle" /\ cycle' = cycle + 1)]_vars

\* a cycle has raised on a ledger that holds records
C15_Witness ==
    /\ error # "none"
    /\ pc = "idle"
    /\ cycle > 1
    /\ ledger # << >>
    /\ ledger = start_ledger

----------------------------------------------------------------------------
(* Properties of the indicators *)

\* the sum of the rises close[k] - close[k - 1] > 0 for k in a..b, and the
\* sum of the falls close[k - 1] - close[k] > 0 (a >= 2)
RECURSIVE UpSum(_, _, _)
UpSum(close, a, b) ==
    IF a > b THEN 0
    ELSE UpSum(close, a, b - 1) + Max2(close[b] - close[b - 1], 0)

RECURSIVE DownSum(_, _, _)
DownSum(close, a, b) ==
    IF a > b THEN 0
    ELSE DownSum(close, a, b - 1) + Max2(close[b - 1] - close[b], 0)

\* what the claim C16 asks of the last value of rsi(close, p): undefined
\* while fewer than p changes exist, 100 when the window holds rises and no
\* fall, undefined when it holds neither, 100 * rises / (rises + falls) else
RsiAsked(close, p) ==
    IF Len(close) < p + 1 THEN NaN
    ELSE IF DownSum(close, Len(close) - p + 1, Len(close)) = 0
         THEN (IF UpSum(close, Len(close) - p + 1, Len(close)) > 0
               THEN Num(100) ELSE NaN)
    ELSE Rat(100 * UpSum(close, Len(close) - p + 1, Len(close)),
             UpSum(close, Len(close) - p + 1, Len(close))
                + DownSum(close, Len(close) - p + 1, Len(close)))

\* C16: rsi(series, p) is 100 on a bar whose window has an average loss of
\* exactly 0 and an average gain > 0; it is undefined (NaN, no exception and
\* no number) when both are 0, as on a flat window, and on every bar that
\* has fewer than p changes before it, so on every bar of a series of fewer
\* than 2 bars; on any other bar it is 100 * gain / (gain + loss).
C16_RsiEdges ==
    ~Empty(fetch_ohlcv(df)) =>
        /\ fetch_ohlcv(df).last.RSI7 = RsiAsked(Expand(df.segs), 7)
        /\ fetch_ohlcv(df).last.RSI14 = RsiAsked(Expand(df.segs), 14)
        /\ fetch_ohlcv(df).last.RSI30 = RsiAsked(Expand(df.segs), 30)
        /\ Shape(fetch_ohlcv(df)) < 2 =>
              /\ IsNaN(fetch_ohlcv(df).last.RSI7)
              /\ IsNaN(fetch_ohlcv(df).last.RSI14)
              /\ IsNaN(fetch_ohlcv(df).last.RSI30)

\* a series whose last 14 changes hold a rise and no fall, and which has
\* fewer than 30 changes: RSI14 is 100 and RSI30 is undefined
C16_Witness ==
    /\ ~Empty(fetch_ohlcv(df))
    /\ Shape(fetch_ohlcv(df)) >= 15
    /\ DownSum(Expand(df.segs), Len(Expand(df.segs)) - 13, Len(Expand(df.segs))) = 0
    /\ UpSum(Expand(df.segs), Len(Expand(df.segs)) - 13, Len(Expand(df.segs))) > 0
    /\ fetch_ohlcv(df).last.RSI14 = Num(100)
    /\ IsNaN(fetch_ohlcv(df).last.RSI30)

----------------------------------------------------------------------------
(* Properties of the exit fields and of the buy and sell tables *)

\* the records that went OPEN -> CLOSED in the running (or last) cycle
ClosedInCycle ==
    {k \in DOMAIN ledger :
        /\ ledger[k].status = "CLOSED"
        /\ k \in DOMAIN start_ledger => start_ledger[k].status = "OPEN"}

\* the place of k among the elements of S, counted from 1 in rising order
Rank(S, k) == Cardinality({x \in S : x <= k})

\* C18: after a full cycle the tables match the changes of the ledger one to
\* one: there are as many buy rows as records appended, each buy row is a
\* trace row with buy = TRUE whose symbol and price are the symbol and
\* buy_price of its record; there are as many sell rows as records that went
\* OPEN -> CLOSED, in ledger order, each with the symbol, the exit price and
\* the reason recorded on its position.
C18_TablesMatchLedger ==
    CycleDone =>
        /\ Len(buy_rows) = Len(ledger) - Len(start_ledger)
        /\ IsSubSeq(buy_rows, scan_results)
        /\ \A k \in DOMAIN scan_results :
              scan_results[k].buy => \E b \in DOMAIN buy_rows : buy_rows[b] = scan_results[k]
        /\ \A k \in DOMAIN buy_rows :
              /\ buy_rows[k].buy
              /\ buy_rows[k].symbol = ledger[Len(start_ledger) + k].symbol
              /\ buy_rows[k].price = ledger[Len(start_ledger) + k].buy_price
        /\ Len(sell_rows) = Cardinality(ClosedInCycle)
        /\ \A k \in ClosedInCycle :
              sell_rows[Rank(ClosedInCycle, k)]
                 = [symbol |-> ledger[k].symbol,
                    exit_price |-> ledger[k].sell_price,
                    reason |-> ledger[k].sell_reason]

\* a full cycle has returned one buy row and two sell rows with different
\* reasons
C18_Witness ==
    /\ CycleDone
    /\ Len(buy_rows) = 1
    /\ Len(sell_rows) = 2
    /\ sell_rows[1].reason # sell_rows[2].reason
    /\ Cardinality(ClosedInCycle) = 2

\* C17: in the persisted ledger a record holds a sell_price and a
\* sell_reason exactly when its status is CLOSED; the reason is one of
\* STOP_LOSS, TARGET_HIT, RSI_EXIT, SWING_HIGH_EXIT, and the price is the
\* latest close of the series the closing sell check read, which was not
\* empty (so never the 0 that check_sell answers without data).
C17_ExitFieldsIffClosed ==
    [][/\ \A k \in DOMAIN ledger' :
             /\ ledger'[k].status \in {"OPEN", "CLOSED"}
             /\ "sell_price" \in DOMAIN ledger'[k] <=> ledger'[k].status = "CLOSED"
             /\ "sell_reason" \in DOMAIN ledger'[k] <=> ledger'[k].status = "CLOSED"
             /\ ledger'[k].status = "CLOSED" =>
                   \E r \in 1..4 : ledger'[k].sell_reason = ExitReasons[r]
       /\ (VisitOpen /\ portfolio'[j].status = "CLOSED") =>
             /\ ~Empty(fetch_ohlcv(df'))
             /\ portfolio'[j].sell_price = fetch_ohlcv(df').last.Close
             /\ portfolio'[j].sell_reason = sold'.reason
       /\ (pc = "exit" /\ pc' = "idle") =>
             \A k \in DOMAIN ledger' :
                ledger'[k].status = "CLOSED" =>
                   /\ ledger'[k].sell_price = portfolio[k].sell_price
                   /\ ledger'[k].sell_reason = portfolio[k].sell_reason]_vars

\* the persisted ledger holds a CLOSED record, with its exit fields, and an
\* OPEN record, without them
C17_Witness ==
    /\ pc = "idle"
    /\ \E a, b \in DOMAIN ledger :
          /\ ledger[a].status = "CLOSED"
          /\ ledger[a].sell_price > 0
          /\ ledger[b].status = "OPEN"
          /\ "sell_price" \notin DOMAIN ledger[b]

----------------------------------------------------------------------------
(* Properties of the rules on undefined indicators *)

\* an indicator the entry rule reads is undefined on the last bar of frame
EntryUndefined(frame) ==
    \/ IsNaN(frame.last.RSI7) \/ IsNaN(frame.last.RSI14) \/ IsNaN(frame.last.RSI30)
    \/ IsNaN(frame.last.MA50) \/ IsNaN(frame.last.MA200)
    \/ IsNaN(frame.last.Vol20)

\* C19: an undefined indicator triggers nothing.  In the sell check, RSI14
\* is undefined on a series of fewer than 15 bars and the 30-bar high on a
\* series of fewer than 30; check_sell answers RSI_EXIT only on a defined
\* RSI14 and SWING_HIGH_EXIT only on a defined high, so with both undefined
\* only STOP_LOSS or TARGET_HIT can fire and otherwise the position stays
\* OPEN as it is.  In the buy scan, a series with an undefined RSI7, RSI14,
\* RSI30, MA50, MA200 or Vol20 on its last bar gives no BUY and opens no
\* position.
C19_UndefinedNeverTriggers ==
    [][/\ (VisitOpen /\ ~Empty(fetch_ohlcv(df'))) =>
             /\ Shape(fetch_ohlcv(df')) < 15 => IsNaN(fetch_ohlcv(df').last.RSI14)
             /\ Shape(fetch_ohlcv(df')) < 30 => IsNaN(fetch_ohlcv(df').last.SwingHigh30)
             /\ IsNaN(fetch_ohlcv(df').last.RSI14) => sold'.reason # "RSI_EXIT"
             /\ IsNaN(fetch_ohlcv(df').last.SwingHigh30) => sold'.reason # "SWING_HIGH_EXIT"
             /\ (/\ IsNaN(fetch_ohlcv(df').last.RSI14)
                 /\ IsNaN(fetch_ohlcv(df').last.SwingHigh30)) =>
                   IF sold'.sell
                   THEN sold'.reason \in {"STOP_LOSS", "TARGET_HIT"}
                   ELSE /\ sold'.price > portfolio[j].stop_loss
                        /\ sold'.price < portfolio[j].target_price
                        /\ portfolio'[j] = portfolio[j]
                        /\ portfolio'[j].status = "OPEN"
       /\ (/\ ScanStep
           /\ ~Empty(fetch_ohlcv(df'))
           /\ Shape(fetch_ohlcv(df')) < 200 \/ EntryUndefined(fetch_ohlcv(df'))) =>
             /\ Len(scan_results') = Len(scan_results) + 1
             /\ ~scan_results'[Len(scan_results')].buy
             /\ buy_rows' = buy_rows
             /\ ledger' = ledger]_vars

\* the sell check has read a series too short for RSI14 and for the 30-bar
\* high, above the stop-loss and below the target: the position stays OPEN
C19_Witness ==
    /\ pc = "exit"
    /\ j > 1
    /\ ~Empty(fetch_ohlcv(df))
    /\ Shape(fetch_ohlcv(df)) < 15
    /\ Shape(fetch_ohlcv(df)) > 1
    /\ IsNaN(fetch_ohlcv(df).last.RSI14)
    /\ IsNaN(fetch_ohlcv(df).last.SwingHigh30)
    /\ ~sold.sell
    /\ sold.price > 0
    /\ portfolio[j - 1].status = "OPEN"

====
